---- MODULE Spec2Model ----
(***************************************************************************)
(* EduMind: the disengagement batch job (train_disengagement_model.py),    *)
(* the readers of the prediction table (routes_predictions.py) and the     *)
(* explainable prediction service (ml_service.py).                         *)
(*                                                                         *)
(* Probabilities are integers in thousandths (700 is 0.7), and so is an    *)
(* average of scores.  A standard deviation is held by its square: 420     *)
(* times the sample variance, an integer for 2 to 7 observations.  A       *)
(* pandas NaN or SQL NULL is the value NaN.  The gradient boosting classifier, the    *)
(* SHAP explainer and joblib are opaque libraries: what they return is     *)
(* drawn from small sets.                                                  *)
(***************************************************************************)
EXTENDS Integers, Sequences, FiniteSets, TLC

VARIABLES
    scores,        \* the engagement_scores table: a set of rows
    fit,           \* what GradientBoostingClassifier(random_state=42).fit learns on this data
    table,         \* the committed disengagement_predictions table, as readers see it
    pending,       \* the batch session's uncommitted view of the table
    pc,            \* position of main()
    df,            \* main's df
    df_ml,         \* main's df_ml
    X,             \* feature matrix returned by prepare_ml_data
    y,             \* labels returned by prepare_ml_data
    test_idx,      \* positions of X that train_test_split put in the test set
    model,         \* predictor.model
    accuracy,      \* what evaluate_model returned
    records,       \* the records list of save_to_database
    failed_in,     \* the position at which the current run raised
    prevTable,     \* history: the committed table when the run started
    frame,         \* history: the frame engineer_features was called on
    rpc,           \* position of the request handler get_latest_prediction
    observed,      \* what the last get_latest_prediction request produced
    svc,           \* the MLService singleton
    attribution,   \* the arguments of the _generate_explanation call under way
    calls,         \* the local variables of each predict call in progress
    env,           \* which artifacts joblib can load, whether TreeExplainer accepts the model
    result,        \* what the last MLService.predict call produced
    source_folder, \* the files glob finds under SOURCE_FOLDER, in glob's order
    output_file,   \* the lines of OUTPUT_FILE
    epc,           \* position of process_full_dataset
    file_i,        \* position of the loop over all_files
    batch_data     \* process_full_dataset's batch_data

batchVars == <<scores, fit, table, pending, pc, df, df_ml, X, y, test_idx,
               model, accuracy, records, failed_in, prevTable, frame>>
readerVars == <<rpc, observed>>
serviceVars == <<svc, env, attribution, calls, result>>
etlVars == <<source_folder, output_file, epc, file_i, batch_data>>
vars == <<batchVars, readerVars, serviceVars, etlVars>>

----------------------------------------------------------------------------
(* Bounds *)

MaxRows == 3
MaxDays == 10
MaxOtherDays == 1
NumFeatures == 2
MaxFeatures == 6
MaxLagDays == 15
MaxPermRows == 4
MaxFiles == 5
\* 1000 in process_full_dataset, scaled down so that the batch boundary falls inside MaxFiles
BATCH_SIZE == 2

NaN == -1

Students == {1, 2}
ScoreLevels == {25, 35}
\* (engagement_score_lag_7days, rolling_avg_7days) of a row: both missing, the lag
\* missing, both present
Histories == {<<NaN, NaN>>, <<NaN, 35>>, <<35, 35>>}
ProbLevels == {390, 400, 699, 700}
FactorScoreLevels == {25, 39, 40}
\* the functions of the score the classifier may learn, as (probability below the
\* labelling threshold, probability at or above it): two that rank the low scores as
\* riskier, one that ranks them as safer
Estimators ==
    {[s \in ScoreLevels \cup FactorScoreLevels |-> IF s < 30 THEN pr[1] ELSE pr[2]] :
        pr \in {<<700, 390>>, <<699, 400>>, <<390, 700>>}}
FeatScoreLevels == {25, 40}
ProbaLevels == {0, 250, 500, 750, 1000}
ShapLevels == {-2, -1, 0, 1, 2}

----------------------------------------------------------------------------
(* DisengagementPredictor constants *)

AT_RISK_THRESHOLD == 30
RISK_THRESHOLDS == [high |-> 700, medium |-> 400, low |-> 0]

----------------------------------------------------------------------------
(* Sequences of rows *)

Max(a, b) == IF a >= b THEN a ELSE b
Min(a, b) == IF a <= b THEN a ELSE b

RECURSIVE SumSeq(_)
SumSeq(s) == IF s = <<>> THEN 0 ELSE s[1] + SumSeq(Tail(s))

RowBefore(a, b) ==
    \/ a.student_id < b.student_id
    \/ a.student_id = b.student_id /\ a.date < b.date

\* ORDER BY student_id, date over the rows of the table
RECURSIVE OrderBy(_)
OrderBy(S) ==
    IF S = {} THEN <<>>
    ELSE LET first == CHOOSE r \in S : \A q \in S \ {r} : RowBefore(r, q)
         IN  <<first>> \o OrderBy(S \ {first})

\* insert row r into the sorted sequence s after every row that is not after it
RECURSIVE InsertSorted(_, _)
InsertSorted(s, r) ==
    IF s = <<>> THEN <<r>>
    ELSE IF RowBefore(r, s[1]) THEN <<r>> \o s
    ELSE <<s[1]>> \o InsertSorted(Tail(s), r)

\* a frame left in the order it was stored in
keep_storage_order(d) == d

\* df.sort_values(['student_id', 'date'])
RECURSIVE sort_values(_)
sort_values(d) ==
    IF d = <<>> THEN <<>>
    ELSE InsertSorted(sort_values(SubSeq(d, 1, Len(d) - 1)), d[Len(d)])

\* df.groupby('student_id'): the rows of one student, in frame order
Group(d, sid) == SelectSeq(d, LAMBDA r : r.student_id = sid)

\* groupby('student_id').cumcount() + 1
CumCount1(d, i) == Cardinality({j \in 1..i : d[j].student_id = d[i].student_id})

\* df[col].shift(n) without the groupby
ShiftUngrouped(d, i, n) == IF i > n THEN d[i - n].engagement_score ELSE NaN

\* groupby('student_id')[col].shift(n) at position i of the frame
Shift(d, i, n) ==
    LET g == Group(d, d[i].student_id)
        k == CumCount1(d, i)
    IN  IF k > n THEN g[k - n].engagement_score ELSE NaN

\* the scores of the w rows of group g that end at position k, NaN left out
Window(g, k, w) ==
    SelectSeq([j \in 1..Min(k, w) |-> g[k - Min(k, w) + j].engagement_score],
              LAMBDA v : v # NaN)

\* Series.std() with ddof=1 over the observations: NaN for fewer than two
SampleStd(obs) ==
    LET n == Len(obs)
        sum == SumSeq(obs)
        sumsq == SumSeq([j \in 1..n |-> obs[j] * obs[j]])
    IN  IF n < 2 THEN NaN
        ELSE (420 \div (n * (n - 1))) * (n * sumsq - sum * sum)

\* groupby('student_id')[col].transform(lambda x: x.rolling(window=7, min_periods=1).std())
RollingStd(d, i) ==
    SampleStd(Window(Group(d, d[i].student_id), CumCount1(d, i), 7))

\* groupby('student_id')[col].expanding().mean() at position i of the frame
ExpandingMean(d, i) ==
    LET k == CumCount1(d, i)
        obs == Window(Group(d, d[i].student_id), k, k)
    IN  IF obs = <<>> THEN NaN ELSE (1000 * SumSeq(obs)) \div Len(obs)

\* (df['engagement_trend'] == value).astype(int)
TrendIs(r, value) == IF r.engagement_trend = value THEN 1 ELSE 0

\* a low-engagement flag that uses the labelling threshold
LowEngagementBelowAtRisk(r) ==
    IF r.engagement_score # NaN /\ r.engagement_score < AT_RISK_THRESHOLD THEN 1 ELSE 0

\* (df['engagement_score'] < 40).astype(int)
LowEngagement(r) == IF r.engagement_score # NaN /\ r.engagement_score < 40 THEN 1 ELSE 0

\* (x != x.shift()).cumsum(): the number of the run of equal values position k is in
RECURSIVE BlockId(_, _)
BlockId(x, k) ==
    IF k = 1 THEN 1
    ELSE BlockId(x, k - 1) + (IF x[k] # x[k - 1] THEN 1 ELSE 0)

\* x.groupby(block).cumsum() at position k
StreakAt(x, k) ==
    SumSeq([j \in 1..k |-> IF BlockId(x, j) = BlockId(x, k) THEN x[j] ELSE 0])

\* the streak computed over the whole frame, without groupby('student_id')
ConsecutiveLowDaysUngrouped(d, i) ==
    StreakAt([k \in 1..Len(d) |-> LowEngagement(d[k])], i)

\* groupby('student_id')['low_engagement'].transform(...) at position i of the frame
ConsecutiveLowDays(d, i) ==
    LET g == Group(d, d[i].student_id)
        x == [k \in 1..Len(g) |-> LowEngagement(g[k])]
    IN  StreakAt(x, CumCount1(d, i))

\* the columns engineer_features adds to row i of the sorted frame
FeatureRow(d, i) ==
    [student_id |-> d[i].student_id,
     date |-> d[i].date,
     session_score |-> d[i].session_score,
     engagement_score |-> d[i].engagement_score,
     engagement_score_lag_7days |-> d[i].engagement_score_lag_7days,
     engagement_trend |-> d[i].engagement_trend,
     rolling_avg_7days |-> d[i].rolling_avg_7days,
     engagement_score_lag_3days |-> Shift(d, i, 3),
     engagement_score_lag_14days |-> Shift(d, i, 14),
     engagement_volatility_7days |-> RollingStd(d, i),
     days_since_start |-> CumCount1(d, i),
     cumulative_avg_score |-> ExpandingMean(d, i),
     is_declining |-> TrendIs(d[i], "Declining"),
     is_improving |-> TrendIs(d[i], "Improving"),
     is_stable |-> TrendIs(d[i], "Stable"),
     low_engagement |-> LowEngagement(d[i]),
     consecutive_low_days |-> ConsecutiveLowDays(d, i)]

\* a feature engineer that keeps one row, the latest, for each student
engineer_features_latest(d) ==
    LET s == sort_values(d)
    IN  SelectSeq([i \in 1..Len(s) |-> FeatureRow(s, i)],
                  LAMBDA r : \A j \in 1..Len(s) :
                                s[j].student_id = r.student_id => s[j].date <= r.date)

engineer_features(d) ==
    LET s == sort_values(d)
    IN  [i \in 1..Len(s) |-> FeatureRow(s, i)]

----------------------------------------------------------------------------
(* prepare_ml_data *)

\* (df['engagement_score'] < AT_RISK_THRESHOLD).astype(int)
AtRiskLabel(r) ==
    IF r.engagement_score # NaN /\ r.engagement_score < AT_RISK_THRESHOLD THEN 1 ELSE 0

WithLabel(d) ==
    [i \in 1..Len(d) |->
        [c \in DOMAIN d[i] \cup {"at_risk"} |->
            IF c = "at_risk" THEN AtRiskLabel(d[i]) ELSE d[i][c]]]

\* dropna that forgets the lag column
DropNaRollingOnly(d) ==
    SelectSeq(d, LAMBDA r : r.rolling_avg_7days # NaN)

\* df.dropna(subset=['engagement_score_lag_7days', 'rolling_avg_7days'])
DropNa(d) ==
    SelectSeq(d, LAMBDA r : r.engagement_score_lag_7days # NaN /\ r.rolling_avg_7days # NaN)

\* self.feature_columns, in the order of the list
feature_column_list ==
    <<"session_score", "engagement_score", "engagement_score_lag_7days",
      "engagement_score_lag_3days", "engagement_score_lag_14days", "rolling_avg_7days",
      "engagement_volatility_7days", "is_declining", "is_improving", "consecutive_low_days",
      "days_since_start", "cumulative_avg_score">>

feature_columns == {feature_column_list[i] : i \in 1..Len(feature_column_list)}

\* X = df_ml[self.feature_columns].fillna(0)
FeatureMatrix(d) ==
    [i \in 1..Len(d) |->
        [c \in feature_columns |-> IF d[i][c] = NaN THEN 0 ELSE d[i][c]]]

Labels(d) == [i \in 1..Len(d) |-> d[i].at_risk]

----------------------------------------------------------------------------
(* train_test_split, the classifier, evaluate_model *)

\* n_test = ceil(0.2 * n)
NumTest(n) == (n + 4) \div 5

\* the test sets train_test_split may pick; none when a side would be empty
TestSets(n) ==
    IF n - NumTest(n) < 1 THEN {}
    ELSE {T \in SUBSET (1..n) : Cardinality(T) = NumTest(n)}

NoModel == <<>>

\* self.model.predict_proba(X)[:, 1] for one row
ModelPredictProba(m, x) == m[x.engagement_score]

\* a predict that applies the labelling rule to the score instead of the probabilities
ModelPredictByThreshold(m, x) == IF x.engagement_score < AT_RISK_THRESHOLD THEN 1 ELSE 0

\* self.model.predict(X) for one row: the class of larger probability, class 0 on a tie
ModelPredict(m, x) == IF ModelPredictProba(m, x) > 1000 - ModelPredictProba(m, x) THEN 1 ELSE 0

NoAccuracy == [correct |-> 0, total |-> 0]

\* accuracy_score(y_test, y_pred)
AccuracyScore(m, Xs, ys, T) ==
    [correct |-> Cardinality({i \in T : ModelPredict(m, Xs[i]) = ys[i]}),
     total |-> Cardinality(T)]

\* self.model.feature_importances_, in thousandths: the classifiers of Estimators
\* split on engagement_score alone
feature_importances(m) ==
    [i \in 1..Len(feature_column_list) |->
        [feature |-> feature_column_list[i],
         importance |-> IF feature_column_list[i] = "engagement_score" THEN 1000 ELSE 0]]

\* insert entry r after every entry whose importance is not smaller
RECURSIVE InsertByImportance(_, _)
InsertByImportance(s, r) ==
    IF s = <<>> THEN <<r>>
    ELSE IF r.importance > s[1].importance THEN <<r>> \o s
    ELSE <<s[1]>> \o InsertByImportance(Tail(s), r)

RECURSIVE SortByImportance(_)
SortByImportance(s) ==
    IF s = <<>> THEN <<>>
    ELSE InsertByImportance(SortByImportance(SubSeq(s, 1, Len(s) - 1)), s[Len(s)])

\* self.feature_importance: the (feature, importance) table sorted by importance,
\* largest first
feature_importance(m) == SortByImportance(feature_importances(m))

----------------------------------------------------------------------------
(* categorize_risk, generate_predictions *)

\* categorize_risk with exclusive lower bounds
categorize_risk_exclusive(prob) ==
    IF prob > RISK_THRESHOLDS.high THEN "High"
    ELSE IF prob > RISK_THRESHOLDS.medium THEN "Medium"
    ELSE "Low"

categorize_risk(prob) ==
    IF prob >= RISK_THRESHOLDS.high THEN "High"
    ELSE IF prob >= RISK_THRESHOLDS.medium THEN "Medium"
    ELSE "Low"

\* a confidence that is the probability of the positive class
confidence_of_positive(x) == x

\* lambda x: max(x, 1-x)
confidence_score(x) == Max(x, 1000 - x)

generate_predictions(m, Xs, d, now) ==
    LET rows == d
    IN  [i \in 1..Len(rows) |->
            [c \in DOMAIN rows[i] \cup {"at_risk_prediction", "risk_probability", "risk_level",
                                     "model_version", "model_type", "confidence_score",
                                     "prediction_horizon_days", "created_at"} |->
                CASE c = "at_risk_prediction" -> ModelPredict(m, Xs[i])
                  [] c = "risk_probability" -> ModelPredictProba(m, Xs[i])
                  [] c = "risk_level" -> categorize_risk(ModelPredictProba(m, Xs[i]))
                  [] c = "model_version" -> "v1.0_GradientBoosting"
                  [] c = "model_type" -> "GradientBoostingClassifier"
                  [] c = "confidence_score" -> confidence_score(ModelPredictProba(m, Xs[i]))
                  [] c = "prediction_horizon_days" -> 7
                  [] c = "created_at" -> now
                  [] OTHER -> rows[i][c]]]

----------------------------------------------------------------------------
(* save_to_database *)

\* a record whose low_session_activity is read from the composite score
PredictionRecordFromScore(r) ==
    [student_id |-> r.student_id,
     prediction_date |-> r.date,
     at_risk |-> (r.at_risk_prediction = 1),
     risk_probability |-> r.risk_probability,
     risk_level |-> r.risk_level,
     contributing_factors |->
        [low_engagement_score |-> (r.engagement_score < 40),
         declining_trend |-> (r.is_declining = 1),
         low_session_activity |-> (r.engagement_score < 30),
         consecutive_low_days |-> r.consecutive_low_days],
     feature_importance |-> r.feature_importance,
     model_version |-> r.model_version,
     model_type |-> r.model_type,
     confidence_score |-> r.confidence_score,
     prediction_horizon_days |-> r.prediction_horizon_days,
     created_at |-> r.created_at]

\* DisengagementPrediction(**row.to_dict()) for one row of df_to_save
PredictionRecord(r) ==
    [student_id |-> r.student_id,
     prediction_date |-> r.date,
     at_risk |-> (r.at_risk_prediction = 1),
     risk_probability |-> r.risk_probability,
     risk_level |-> r.risk_level,
     contributing_factors |->
        [low_engagement_score |-> (r.engagement_score < 40),
         declining_trend |-> (r.is_declining = 1),
         low_session_activity |-> (r.session_score < 30),
         consecutive_low_days |-> r.consecutive_low_days],
     feature_importance |-> r.feature_importance,
     model_version |-> r.model_version,
     model_type |-> r.model_type,
     confidence_score |-> r.confidence_score,
     prediction_horizon_days |-> r.prediction_horizon_days,
     created_at |-> r.created_at]

\* self.feature_importance.head(5)[['feature', 'importance']].to_dict('records')
TopFeatures(m) ==
    LET ranked == feature_importance(m)
    IN  SubSeq(ranked, 1, Min(5, Len(ranked)))

\* df_predictions['feature_importance'] = [top_features] * len(df_predictions)
WithFeatureImportance(d, m) ==
    [i \in 1..Len(d) |->
        [c \in DOMAIN d[i] \cup {"feature_importance"} |->
            IF c = "feature_importance" THEN TopFeatures(m) ELSE d[i][c]]]

BuildRecords(d, m) ==
    LET df_predictions == WithFeatureImportance(d, m)
    IN  [i \in 1..Len(d) |-> PredictionRecord(df_predictions[i])]

SeqToSet(s) == {s[i] : i \in 1..Len(s)}

\* an except clause that logs and returns
save_except_swallows == "saved"

\* where control goes when save_to_database's except clause has rolled back
save_except_next == "raised"

----------------------------------------------------------------------------
(* get_latest_prediction *)

\* filter(student_id == s).order_by(desc(prediction_date)).first()
LatestPrediction(T, s) ==
    LET mine == {r \in T : r.student_id = s}
    IN  IF mine = {} THEN {}
        ELSE {CHOOSE r \in mine : \A q \in mine : q.prediction_date <= r.prediction_date}

NoRead == [student_id |-> 0, status |-> 0, prediction |-> {}]

----------------------------------------------------------------------------
(* MLService *)

ArtifactNames == <<"model", "scaler", "label_encoder", "feature_names", "metadata">>

\* what joblib.load and shap.TreeExplainer can do in this deployment
Environments ==
    [loadable : [{ArtifactNames[i] : i \in 1..Len(ArtifactNames)} -> BOOLEAN],
     tree_explainer : BOOLEAN]

\* _initialize_explainer: the explainer, or None when TreeExplainer raises
initialize_explainer(e) == IF e.tree_explainer THEN "TreeExplainer" ELSE "None"

\* MLService(): __init__ then _load_models; no instance when _load_models raises
load_models(e) ==
    IF \E a \in DOMAIN e.loadable : ~e.loadable[a]
    THEN [state |-> "raised", model |-> "None", scaler |-> "None", label_encoder |-> "None",
          feature_names |-> "None", metadata |-> "None", explainer |-> "None"]
    ELSE [state |-> "ready", model |-> "loaded", scaler |-> "loaded",
          label_encoder |-> "loaded", feature_names |-> "loaded", metadata |-> "loaded",
          explainer |-> initialize_explainer(e)]

\* label_encoder.classes_, in the encoder's order
Classes == <<"Distinction", "Fail", "Pass", "Withdrawn">>

AllFeatureNames ==
    <<"avg_grade", "grade_consistency", "grade_range", "num_assessments",
      "assessment_completion_rate", "studied_credits", "num_of_prev_attempts",
      "low_performance", "low_engagement", "has_previous_attempts">>

\* self.feature_names
feature_names == SubSeq(AllFeatureNames, 1, NumFeatures)

\* np.argmax: the first position holding the maximum
ArgMax(v) == CHOOSE i \in 1..Len(v) :
    /\ \A j \in 1..Len(v) : v[j] <= v[i]
    /\ \A j \in 1..(i - 1) : v[j] < v[i]

calculate_risk_level(predicted_class, probability) ==
    IF predicted_class = "Distinction" \/ predicted_class = "Pass"
    THEN IF probability >= 800 THEN "LOW"
         ELSE IF probability >= 600 THEN "MEDIUM"
         ELSE "HIGH"
    ELSE IF predicted_class = "Fail"
    THEN IF probability >= 700 THEN "CRITICAL"
         ELSE IF probability >= 500 THEN "HIGH"
         ELSE "MEDIUM"
    ELSE IF predicted_class = "Withdrawn" THEN "CRITICAL"
    ELSE "MEDIUM"

Abs(v) == IF v < 0 THEN 0 - v ELSE v

\* features.get(feature_name, 0.0)
FeatureValue(features, name) == IF name \in DOMAIN features THEN features[name] ELSE 0

\* feature_impacts, in the order of self.feature_names
FeatureImpacts(names, shap_values, features) ==
    [i \in 1..Len(names) |->
        [name |-> names[i],
         value |-> FeatureValue(features, names[i]),
         shap_value |-> shap_values[i],
         abs_shap |-> Abs(shap_values[i])]]

\* insert impact r after every impact whose abs_shap is not smaller
RECURSIVE InsertByAbs(_, _)
InsertByAbs(s, r) ==
    IF s = <<>> THEN <<r>>
    ELSE IF r.abs_shap > s[1].abs_shap THEN <<r>> \o s
    ELSE <<s[1]>> \o InsertByAbs(Tail(s), r)

\* feature_impacts.sort(key=abs_shap, reverse=True): stable
RECURSIVE SortByAbs(_)
SortByAbs(s) ==
    IF s = <<>> THEN <<>>
    ELSE InsertByAbs(SortByAbs(SubSeq(s, 1, Len(s) - 1)), s[Len(s)])

Head5(s) == SubSeq(s, 1, IF Len(s) < 5 THEN Len(s) ELSE 5)
Head3(s) == SubSeq(s, 1, IF Len(s) < 3 THEN Len(s) ELSE 3)

Contribution(impact) == IF impact.shap_value > 0 THEN "positive" ELSE "negative"

\* FeatureImportance(...) for one of the top impacts
FeatureImportance(impact) ==
    [feature_name |-> impact.name,
     importance |-> impact.abs_shap,
     shap_value |-> impact.shap_value,
     contribution |-> Contribution(impact)]

\* f"{name.replace('_', ' ').title()}: {value}"
FactorText(impact) == [name |-> impact.name, value |-> impact.value]

\* the adjective with exclusive lower bounds
ConfidenceWordExclusive(probability) ==
    IF probability > 800 THEN "high"
    ELSE IF probability > 600 THEN "moderate"
    ELSE "low"

ConfidenceWord(probability) ==
    IF probability >= 800 THEN "high"
    ELSE IF probability >= 600 THEN "moderate"
    ELSE "low"

\* the sentence, as the parts it is formatted from
build_natural_language_explanation(predicted_class, probability, top_features) ==
    LET positive == SelectSeq(top_features, LAMBDA f : f.contribution = "positive")
        negative == SelectSeq(top_features, LAMBDA f : f.contribution = "negative")
    IN  [kind |-> "detailed",
         predicted_class |-> predicted_class,
         confidence |-> ConfidenceWord(probability),
         probability |-> probability,
         positive |-> [i \in 1..Len(Head3(positive)) |-> positive[i].feature_name],
         negative |-> [i \in 1..Len(Head3(negative)) |-> negative[i].feature_name]]

\* f"Predicted outcome: {predicted_class} ({probability:.1%})"
BareExplanation(predicted_class, probability) ==
    [kind |-> "bare",
     predicted_class |-> predicted_class,
     confidence |-> "",
     probability |-> probability,
     positive |-> <<>>,
     negative |-> <<>>]

generate_explanation(names, shap_values, features, predicted_class, probability) ==
    LET top == Head5(SortByAbs(FeatureImpacts(names, shap_values, features)))
        top_features == [i \in 1..Len(top) |-> FeatureImportance(top[i])]
    IN  [top_features |-> top_features,
         natural_language_explanation |->
            build_natural_language_explanation(predicted_class, probability, top_features),
         confidence_factors |->
            LET pos == SelectSeq(top, LAMBDA t : Contribution(t) = "positive")
            IN  [i \in 1..Len(pos) |-> FactorText(pos[i])],
         risk_factors |->
            LET neg == SelectSeq(top, LAMBDA t : Contribution(t) # "positive")
            IN  [i \in 1..Len(neg) |-> FactorText(neg[i])]]

\* how the attribution of one call goes: "ok", "shap_raises" (explainer.shap_values
\* raises), "explain_raises" (_generate_explanation raises)
AttributionOutcomes == {"ok", "shap_raises", "explain_raises"}

NoExplanation(predicted_class, probability) ==
    [shap_values |-> <<>>,
     top_features |-> <<>>,
     natural_language_explanation |-> BareExplanation(predicted_class, probability),
     confidence_factors |-> <<>>,
     risk_factors |-> <<>>]

\* lines 221-254 of predict: the explanation fields after the attribution attempt
Explain(explainer, outcome, shap_values, features, predicted_class, probability) ==
    LET none == NoExplanation(predicted_class, probability)
    IN  IF explainer = "None" \/ outcome = "shap_raises" THEN none
        ELSE IF outcome = "explain_raises"
        THEN [none EXCEPT !.shap_values = shap_values]
        ELSE LET e == generate_explanation(feature_names, shap_values, features,
                                           predicted_class, probability)
             IN  [shap_values |-> shap_values,
                  top_features |-> e.top_features,
                  natural_language_explanation |-> e.natural_language_explanation,
                  confidence_factors |-> e.confidence_factors,
                  risk_factors |-> e.risk_factors]

\* predict without the inner try/except
attribution_error_escapes == TRUE

\* whether an exception raised while attributing leaves predict
attribution_error_propagates == FALSE

NoResult ==
    [status |-> "none", predicted_class |-> "", probability |-> 0, probabilities |-> <<>>,
     risk_level |-> "", outcome |-> "", explanation |-> NoExplanation("", 0)]

\* MLService.predict for one request
predict(service, features, prediction_proba, outcome, shap_values) ==
    LET predicted_class_idx == ArgMax(prediction_proba)
        predicted_class == Classes[predicted_class_idx]
        probability == prediction_proba[predicted_class_idx]
        attributed == service.explainer # "None"
    IN  IF attributed /\ outcome # "ok" /\ attribution_error_propagates
        THEN [NoResult EXCEPT !.status = "raised", !.outcome = outcome]
        ELSE [status |-> "returned",
              predicted_class |-> predicted_class,
              probability |-> probability,
              probabilities |-> prediction_proba,
              risk_level |-> calculate_risk_level(predicted_class, probability),
              outcome |-> IF attributed THEN outcome ELSE "no_explainer",
              explanation |-> Explain(service.explainer, outcome, shap_values, features,
                                      predicted_class, probability)]

----------------------------------------------------------------------------
(* The state before the first batch run *)

\* (session_score, engagement_trend) of a row
Activities == {<<50, "Stable">>}

Cells == ScoreLevels \X Histories \X Activities

\* how many rows each student has: at most MaxRows in all
RowCounts == {cnt \in [Students -> 0..MaxRows] : SumSeq(cnt) <= MaxRows}

Keys(cnt) == {k \in Students \X (1..MaxRows) : k[2] <= cnt[k[1]]}

ScoreRow(k, cell) ==
    [student_id |-> k[1], date |-> k[2], session_score |-> cell[3][1],
     engagement_score |-> cell[1], engagement_score_lag_7days |-> cell[2][1],
     engagement_trend |-> cell[3][2], rolling_avg_7days |-> cell[2][2]]

\* the tables the upstream scoring job can have written: one row per (student_id, date)
ScoreTables ==
    UNION {{{ScoreRow(k, f[k]) : k \in Keys(cnt)} : f \in [Keys(cnt) -> Cells]} :
           cnt \in RowCounts}

\* process_full_dataset is not running: no input files, no output file
InitEtl ==
    /\ source_folder = <<>>
    /\ output_file = <<>>
    /\ epc = "start"
    /\ file_i = 0
    /\ batch_data = <<>>

InitReader == rpc = "idle" /\ observed = NoRead

NoService ==
    [state |-> "importing", model |-> "None", scaler |-> "None", label_encoder |-> "None",
     feature_names |-> "None", metadata |-> "None", explainer |-> "None"]

Callers == {1, 2}

\* a caller with no predict call in progress
NoCall ==
    [pc |-> "idle", features |-> <<>>, prediction_proba |-> <<>>, outcome |-> "",
     shap_values |-> <<>>, explanation |-> NoExplanation("", 0), result |-> NoResult]

NoAttribution ==
    [feature_names |-> <<>>, shap_values |-> <<>>, features |-> <<>>,
     predicted_class |-> "", probability |-> 0]

InitService ==
    /\ env = [loadable |-> [a \in {ArtifactNames[i] : i \in 1..Len(ArtifactNames)} |-> TRUE],
              tree_explainer |-> TRUE]
    /\ svc = NoService
    /\ attribution = NoAttribution
    /\ calls = [c \in Callers |-> NoCall]
    /\ result = NoResult

InitRun ==
    /\ pc = "start"
    /\ df = <<>>
    /\ df_ml = <<>>
    /\ X = <<>>
    /\ y = <<>>
    /\ test_idx = {}
    /\ model = NoModel
    /\ accuracy = NoAccuracy
    /\ records = <<>>
    /\ failed_in = "none"
    /\ frame = <<>>

\* what an earlier successful run on these scores left in the table
EarlierRunSet(S, m) ==
    LET d == DropNa(WithLabel(engineer_features(OrderBy(S))))
    IN  IF TestSets(Len(d)) = {} THEN {}
        ELSE SeqToSet(BuildRecords(generate_predictions(m, FeatureMatrix(d), d, "earlier"), m))

Init ==
    /\ scores \in ScoreTables
    /\ fit \in Estimators
    /\ table \in {{}, EarlierRunSet(scores, fit)}
    /\ pending = table
    /\ prevTable = table
    /\ InitRun
    /\ InitReader
    /\ InitEtl
    /\ InitService

----------------------------------------------------------------------------
(* main: one action per step of the run *)

runLocals == <<df, df_ml, X, y, test_idx, model, accuracy, records>>
dbVars == <<scores, fit, table, pending, prevTable, frame>>

\* a load step that empties the prediction table before reading the scores
LoadDataTruncates ==
    /\ pc = "start"
    /\ df' = OrderBy(scores)
    /\ table' = {}
    /\ pending' = {}
    /\ pc' = "loaded"
    /\ UNCHANGED <<scores, fit, prevTable, frame, df_ml, X, y, test_idx, model, accuracy, records,
                   failed_in, readerVars, serviceVars, etlVars>>

\* Step 1: df = predictor.load_data()
LoadData ==
    /\ pc = "start"
    /\ df' = OrderBy(scores)
    /\ pc' = "loaded"
    /\ UNCHANGED <<dbVars, df_ml, X, y, test_idx, model, accuracy, records, failed_in,
                   readerVars, serviceVars, etlVars>>

\* Step 2: df = predictor.engineer_features(df)
EngineerFeatures ==
    /\ pc = "loaded"
    /\ frame' = df
    /\ df' = engineer_features(df)
    /\ pc' = "engineered"
    /\ UNCHANGED <<scores, fit, table, pending, prevTable, df_ml, X, y, test_idx, model,
                   accuracy, records, failed_in, readerVars, serviceVars, etlVars>>

\* Step 3: X, y, df_ml = predictor.prepare_ml_data(df)
PrepareMlData ==
    /\ pc = "engineered"
    /\ df' = WithLabel(df)
    /\ df_ml' = DropNa(WithLabel(df))
    /\ X' = FeatureMatrix(DropNa(WithLabel(df)))
    /\ y' = Labels(DropNa(WithLabel(df)))
    /\ pc' = "prepared"
    /\ UNCHANGED <<dbVars, test_idx, model, accuracy, records, failed_in,
                   readerVars, serviceVars, etlVars>>

\* Step 4: train_test_split(X, y, test_size=0.2, random_state=42, stratify=y)
TrainTestSplit ==
    /\ pc = "prepared"
    /\ \E T \in TestSets(Len(X)) : test_idx' = T
    /\ pc' = "split"
    /\ UNCHANGED <<dbVars, df, df_ml, X, y, model, accuracy, records, failed_in,
                   readerVars, serviceVars, etlVars>>

\* Step 4 raises ValueError when the train or the test set would be empty
TrainTestSplitRaises ==
    /\ pc = "prepared"
    /\ TestSets(Len(X)) = {}
    /\ pc' = "raised"
    /\ failed_in' = pc
    /\ UNCHANGED <<dbVars, runLocals, readerVars, serviceVars, etlVars>>

\* a fit without random_state: each run may learn a different function
TrainModelUnseeded ==
    /\ pc = "split"
    /\ model' \in Estimators
    /\ pc' = "trained"
    /\ UNCHANGED <<dbVars, df, df_ml, X, y, test_idx, accuracy, records, failed_in,
                   readerVars, serviceVars, etlVars>>

\* Step 5: predictor.train_model(X_train, y_train)
TrainModel ==
    /\ pc = "split"
    /\ model' = fit
    /\ pc' = "trained"
    /\ UNCHANGED <<dbVars, df, df_ml, X, y, test_idx, accuracy, records, failed_in,
                   readerVars, serviceVars, etlVars>>

\* Step 6: accuracy, roc_auc = predictor.evaluate_model(X_test, y_test)
EvaluateModel ==
    /\ pc = "trained"
    /\ accuracy' = AccuracyScore(model, X, y, test_idx)
    /\ pc' = "evaluated"
    /\ UNCHANGED <<dbVars, df, df_ml, X, y, test_idx, model, records, failed_in,
                   readerVars, serviceVars, etlVars>>

\* Step 7: df_ml = predictor.generate_predictions(X, df_ml)
GeneratePredictions ==
    /\ pc = "evaluated"
    /\ df_ml' = generate_predictions(model, X, df_ml, "now")
    /\ pc' = "generated"
    /\ UNCHANGED <<dbVars, df, X, y, test_idx, model, accuracy, records, failed_in,
                   readerVars, serviceVars, etlVars>>

\* a step before save_to_database raises (database error, library error)
StepRaises ==
    /\ pc \in {"start", "loaded", "engineered", "prepared", "split", "trained", "evaluated"}
    /\ pc' = "raised"
    /\ failed_in' = pc
    /\ UNCHANGED <<dbVars, runLocals, readerVars, serviceVars, etlVars>>

----------------------------------------------------------------------------
(* Step 8: predictor.save_to_database(df_ml), one action per database call *)

SavePcs == {"generated", "deleted", "cleared", "built", "inserted", "saved"}

\* self.db.query(DisengagementPrediction).delete()
SaveDelete ==
    /\ pc = "generated"
    /\ pending' = {}
    /\ pc' = "deleted"
    /\ UNCHANGED <<scores, fit, table, prevTable, frame, runLocals, failed_in,
                   readerVars, serviceVars, etlVars>>

\* self.db.commit() after the delete
SaveCommitClear ==
    /\ pc = "deleted"
    /\ table' = pending
    /\ pc' = "cleared"
    /\ UNCHANGED <<scores, fit, pending, prevTable, frame, runLocals, failed_in,
                   readerVars, serviceVars, etlVars>>

\* df_predictions ... records.append(record)
SaveBuild ==
    /\ pc = "cleared"
    /\ records' = BuildRecords(df_ml, model)
    /\ pc' = "built"
    /\ UNCHANGED <<dbVars, df, df_ml, X, y, test_idx, model, accuracy, failed_in,
                   readerVars, serviceVars, etlVars>>

\* self.db.bulk_save_objects(records)
SaveBulkInsert ==
    /\ pc = "built"
    /\ pending' = pending \cup SeqToSet(records)
    /\ pc' = "inserted"
    /\ UNCHANGED <<scores, fit, table, prevTable, frame, runLocals, failed_in,
                   readerVars, serviceVars, etlVars>>

\* self.db.commit() after the bulk insert
SaveCommitInsert ==
    /\ pc = "inserted"
    /\ table' = pending
    /\ pc' = "saved"
    /\ UNCHANGED <<scores, fit, pending, prevTable, frame, runLocals, failed_in,
                   readerVars, serviceVars, etlVars>>

\* the next statement of save_to_database raises: except: self.db.rollback(); raise
SaveExcept ==
    /\ pc \in SavePcs
    /\ pending' = table
    /\ pc' = save_except_next
    /\ failed_in' = pc
    /\ UNCHANGED <<scores, fit, table, prevTable, frame, runLocals, readerVars, serviceVars,
                   etlVars>>

\* the verification counts, main's summary, finally: db.close()
Summary ==
    /\ pc = "saved"
    /\ pc' = "done"
    /\ UNCHANGED <<dbVars, runLocals, failed_in, readerVars, serviceVars, etlVars>>

\* main's except clause re-raises; finally: db.close()
MainExcept ==
    /\ pc = "raised"
    /\ pending' = table
    /\ pc' = "failed"
    /\ UNCHANGED <<scores, fit, table, prevTable, frame, runLocals, failed_in,
                   readerVars, serviceVars, etlVars>>

----------------------------------------------------------------------------
(* GET /api/v1/predictions/students/{student_id}/latest *)

Read ==
    /\ rpc = "idle"
    /\ \E s \in Students :
         LET found == LatestPrediction(table, s)
         IN  observed' = [student_id |-> s,
                          status |-> IF found = {} THEN 404 ELSE 200,
                          prediction |-> found]
    /\ rpc' = "responded"
    /\ UNCHANGED <<batchVars, serviceVars, etlVars>>

\* the response is sent and the request's session is closed
Respond ==
    /\ rpc = "responded"
    /\ rpc' = "idle"
    /\ observed' = NoRead
    /\ UNCHANGED <<batchVars, serviceVars, etlVars>>

----------------------------------------------------------------------------
(* The explainable prediction service *)

\* ml_service = MLService(), at import of the module
Construct ==
    /\ svc.state = "importing"
    /\ svc' = load_models(env)
    /\ UNCHANGED <<batchVars, readerVars, env, attribution, calls, result, etlVars>>

\* request.features.get(f, 0.0) for every feature name
RequestFeatures == [f \in {feature_names[i] : i \in 1..Len(feature_names)} |-> 1]

\* distributions whose last digit was rounded: they sum to 1 within a thousandth
RoundedVectors == {v \in [1..Len(Classes) -> {0, 333, 334}] : SumSeq(v) \in {999, 1001}}

\* what self.model.predict_proba returns for one row: a distribution over the classes,
\* exact or rounded
ProbaVectors ==
    {v \in [1..Len(Classes) -> ProbaLevels] : SumSeq(v) = 1000} \cup RoundedVectors

\* await ml_service.predict(request)
Predict ==
    /\ svc.state = "ready"
    /\ result.status = "none"
    /\ \E proba \in ProbaVectors, outcome \in AttributionOutcomes,
          shap_values \in [1..Len(feature_names) -> ShapLevels] :
         result' = predict(svc, RequestFeatures, proba, outcome, shap_values)
    /\ UNCHANGED <<batchVars, readerVars, env, attribution, calls, svc, etlVars>>

\* the caller has consumed the result (or the exception)
Return ==
    /\ result.status # "none"
    /\ result' = NoResult
    /\ UNCHANGED <<batchVars, readerVars, env, attribution, calls, svc, etlVars>>

----------------------------------------------------------------------------

Next ==
    \/ LoadData
    \/ EngineerFeatures
    \/ PrepareMlData
    \/ TrainTestSplit
    \/ TrainTestSplitRaises
    \/ TrainModel
    \/ EvaluateModel
    \/ GeneratePredictions
    \/ StepRaises
    \/ SaveDelete
    \/ SaveCommitClear
    \/ SaveBuild
    \/ SaveBulkInsert
    \/ SaveCommitInsert
    \/ SaveExcept
    \/ Summary
    \/ MainExcept

Spec == Init /\ [][Next]_vars

\* the batch run with requests for the latest prediction arriving at any time
NextReaders ==
    \/ Next
    \/ Read
    \/ Respond

SpecReaders == Init /\ [][NextReaders]_vars

----------------------------------------------------------------------------
(* The batch run over one or two rows whose score, session score and trend vary *)

FactorActivities == {29, 30} \X {"Declining", "Improving"}

FactorCells == FactorScoreLevels \X {<<35, 35>>} \X FactorActivities

FactorRowCounts == {cnt \in [Students -> 0..2] : SumSeq(cnt) \in {1, 2}}

FactorTables ==
    UNION {{{ScoreRow(k, f[k]) : k \in Keys(cnt)} : f \in [Keys(cnt) -> FactorCells]} :
           cnt \in FactorRowCounts}

InitFactors ==
    /\ scores \in FactorTables
    /\ fit \in Estimators
    /\ table \in {{}, EarlierRunSet(scores, fit)}
    /\ pending = table
    /\ prevTable = table
    /\ InitRun
    /\ InitReader
    /\ InitEtl
    /\ InitService

SpecFactors == InitFactors /\ [][Next]_vars

----------------------------------------------------------------------------
(* The feature engineer alone, on the frames load_data can return *)

FeatRow(sid, d, score) ==
    [student_id |-> sid, date |-> d, session_score |-> 50, engagement_score |-> score,
     engagement_score_lag_7days |-> NaN, engagement_trend |-> "Stable",
     rolling_avg_7days |-> NaN]

\* student 1 has up to MaxDays rows, student 2 up to MaxOtherDays
FeatFrames ==
    {[i \in 1..Len(a) |-> FeatRow(1, i, a[i])] \o [i \in 1..Len(b) |-> FeatRow(2, i, b[i])] :
        a \in UNION {[1..n -> FeatScoreLevels] : n \in 0..MaxDays},
        b \in UNION {[1..n -> FeatScoreLevels] : n \in 0..MaxOtherDays}}

\* two long series whose scores tell the student and the position: student 1 on
\* consecutive dates, student 2 on every other date
LagFrames ==
    {[i \in 1..n1 |-> FeatRow(1, i, 20 + i)] \o [i \in 1..n2 |-> FeatRow(2, 2 * i, 40 + i)] :
        n1 \in 0..MaxLagDays, n2 \in 0..MaxLagDays}

\* how many rows each student has: at most MaxPermRows in all
PermRowCounts == {cnt \in [Students -> 0..MaxPermRows] : SumSeq(cnt) <= MaxPermRows}

PermKeys(cnt) == {k \in Students \X (1..MaxPermRows) : k[2] <= cnt[k[1]]}

\* small sets of rows, one row per (student_id, date)
PermRowSets ==
    UNION {{{FeatRow(k[1], k[2], f[k]) : k \in PermKeys(cnt)} :
                f \in [PermKeys(cnt) -> FeatScoreLevels]} : cnt \in PermRowCounts}

\* the orders a set of rows can be stored in
Orderings(S) ==
    {f \in [1..Cardinality(S) -> S] : \A i, j \in 1..Cardinality(S) : f[i] = f[j] => i = j}

\* engineer_features is about to be called on frame d
InitFrame(d) ==
    /\ scores = {}
    /\ fit = CHOOSE e \in Estimators : TRUE
    /\ table = {}
    /\ pending = {}
    /\ prevTable = {}
    /\ pc = "loaded"
    /\ df = d
    /\ df_ml = <<>>
    /\ X = <<>>
    /\ y = <<>>
    /\ test_idx = {}
    /\ model = NoModel
    /\ accuracy = NoAccuracy
    /\ records = <<>>
    /\ failed_in = "none"
    /\ frame = <<>>
    /\ InitReader
    /\ InitEtl
    /\ InitService

InitFeat ==
    \/ \E d \in FeatFrames : InitFrame(d)
    \/ \E d \in LagFrames : InitFrame(d)
    \/ \E S \in PermRowSets : \E d \in Orderings(S) : InitFrame(d)

NextFeat == EngineerFeatures

SpecFeat == InitFeat /\ [][NextFeat]_vars

----------------------------------------------------------------------------
(* The feature engineer on frames in which one row has no engagement_score *)

\* the rows S with the score of row r missing
WithMissingScore(S, r) == (S \ {r}) \cup {[r EXCEPT !.engagement_score = NaN]}

InitMissing ==
    \E S \in PermRowSets : \E r \in S : InitFrame(OrderBy(WithMissingScore(S, r)))

NextMissing == EngineerFeatures

SpecMissing == InitMissing /\ [][NextMissing]_vars

----------------------------------------------------------------------------
(* The prediction service alone *)

InitSvc ==
    /\ scores = {}
    /\ fit = CHOOSE e \in Estimators : TRUE
    /\ table = {}
    /\ pending = {}
    /\ prevTable = {}
    /\ InitRun
    /\ InitReader
    /\ InitEtl
    /\ env \in Environments
    /\ svc = NoService
    /\ attribution = NoAttribution
    /\ calls = [c \in Callers |-> NoCall]
    /\ result = NoResult

NextSvc ==
    \/ Construct
    \/ Predict
    \/ Return

SpecSvc == InitSvc /\ [][NextSvc]_vars

----------------------------------------------------------------------------
(* _generate_explanation alone, on attribution vectors over 1 to MaxFeatures features *)

\* the predicted-class probabilities the explanation is asked for
ExplainedProbabilities == {599, 600, 799, 800}

\* the call made for the attribution vector v over the first n feature names and the
\* predicted-class probability p
AttributionInput(n, v, p) ==
    [feature_names |-> SubSeq(AllFeatureNames, 1, n),
     shap_values |-> v,
     features |-> [f \in {AllFeatureNames[i] : i \in 1..n} |-> 1],
     predicted_class |-> "Fail",
     probability |-> p]

InitExplain ==
    /\ scores = {}
    /\ fit = CHOOSE e \in Estimators : TRUE
    /\ table = {}
    /\ pending = {}
    /\ prevTable = {}
    /\ InitRun
    /\ InitReader
    /\ InitEtl
    /\ env = [loadable |-> [a \in {ArtifactNames[i] : i \in 1..Len(ArtifactNames)} |-> TRUE],
              tree_explainer |-> TRUE]
    /\ svc = load_models(env)
    /\ \E n \in 1..MaxFeatures : \E v \in [1..n -> ShapLevels] :
         \E p \in ExplainedProbabilities : attribution = AttributionInput(n, v, p)
    /\ calls = [c \in Callers |-> NoCall]
    /\ result = NoResult

\* self._generate_explanation(shap_values, request.features, predicted_class, probability)
GenerateExplanation ==
    /\ svc.state = "ready"
    /\ result.status = "none"
    /\ LET e == generate_explanation(attribution.feature_names, attribution.shap_values,
                                     attribution.features, attribution.predicted_class,
                                     attribution.probability)
       IN  result' = [NoResult EXCEPT
                        !.status = "explained",
                        !.predicted_class = attribution.predicted_class,
                        !.probability = attribution.probability,
                        !.outcome = "ok",
                        !.explanation =
                            [shap_values |-> attribution.shap_values,
                             top_features |-> e.top_features,
                             natural_language_explanation |-> e.natural_language_explanation,
                             confidence_factors |-> e.confidence_factors,
                             risk_factors |-> e.risk_factors]]
    /\ UNCHANGED <<batchVars, readerVars, env, attribution, calls, svc, etlVars>>

NextExplain == GenerateExplanation

SpecExplain == InitExplain /\ [][NextExplain]_vars

----------------------------------------------------------------------------
(* predict calls in progress at the same time on the one MLService instance, each *)
(* taken statement by statement                                                    *)

ConcurrentProbaVectors == {v \in ProbaVectors : v[2] = 250 /\ (v[1] = 750 \/ v[4] = 750)}
ConcurrentShapVectors == {[i \in 1..Len(feature_names) |-> k] : k \in {-1, 1}}

InitConcurrent ==
    /\ scores = {}
    /\ fit = CHOOSE e \in Estimators : TRUE
    /\ table = {}
    /\ pending = {}
    /\ prevTable = {}
    /\ InitRun
    /\ InitReader
    /\ InitEtl
    /\ \E t \in BOOLEAN :
         env = [loadable |-> [a \in {ArtifactNames[i] : i \in 1..Len(ArtifactNames)} |-> TRUE],
                tree_explainer |-> t]
    /\ svc = load_models(env)
    /\ attribution = NoAttribution
    /\ calls = [c \in Callers |-> NoCall]
    /\ result = NoResult

\* scaled_features = self._prepare_features(request.features)
CallPrepare(c) ==
    /\ svc.state = "ready"
    /\ calls[c].pc = "idle"
    /\ calls' = [calls EXCEPT ![c].pc = "prepared", ![c].features = RequestFeatures]
    /\ UNCHANGED <<batchVars, readerVars, env, attribution, svc, result, etlVars>>

\* a predict that keeps the class of the last call on the service
CallPredictProbaCaching(c) ==
    /\ calls[c].pc = "prepared"
    /\ \E proba \in ConcurrentProbaVectors :
         /\ calls' = [calls EXCEPT ![c].pc = "classified", ![c].prediction_proba = proba]
         /\ svc' = [svc EXCEPT !.metadata = Classes[ArgMax(proba)]]
    /\ UNCHANGED <<batchVars, readerVars, env, attribution, result, etlVars>>

\* prediction_proba = self.model.predict_proba(scaled_features)[0]
CallPredictProba(c) ==
    /\ calls[c].pc = "prepared"
    /\ \E proba \in ConcurrentProbaVectors :
         calls' = [calls EXCEPT ![c].pc = "classified", ![c].prediction_proba = proba]
    /\ UNCHANGED <<batchVars, readerVars, env, attribution, svc, result, etlVars>>

\* lines 221-254: the attribution attempt, reading self.explainer
CallExplain(c) ==
    /\ calls[c].pc = "classified"
    /\ \E outcome \in AttributionOutcomes, shap_values \in ConcurrentShapVectors :
         LET idx == ArgMax(calls[c].prediction_proba)
         IN  calls' = [calls EXCEPT
                         ![c].pc = "explained",
                         ![c].outcome = outcome,
                         ![c].shap_values = shap_values,
                         ![c].explanation =
                             Explain(svc.explainer, outcome, shap_values, calls[c].features,
                                     Classes[idx], calls[c].prediction_proba[idx])]
    /\ UNCHANGED <<batchVars, readerVars, env, attribution, svc, result, etlVars>>

\* lines 256-276: PredictionResult(...), Explanation(...), return
CallReturn(c) ==
    /\ calls[c].pc = "explained"
    /\ LET idx == ArgMax(calls[c].prediction_proba)
           predicted_class == Classes[idx]
           probability == calls[c].prediction_proba[idx]
       IN  calls' = [calls EXCEPT
                       ![c].pc = "returned",
                       ![c].result =
                           [status |-> "returned",
                            predicted_class |-> predicted_class,
                            probability |-> probability,
                            probabilities |-> calls[c].prediction_proba,
                            risk_level |-> calculate_risk_level(predicted_class, probability),
                            outcome |-> IF svc.explainer # "None" THEN calls[c].outcome
                                        ELSE "no_explainer",
                            explanation |-> calls[c].explanation]]
    /\ UNCHANGED <<batchVars, readerVars, env, attribution, svc, result, etlVars>>

\* the caller has consumed the result
CallDone(c) ==
    /\ calls[c].pc = "returned"
    /\ calls' = [calls EXCEPT ![c] = NoCall]
    /\ UNCHANGED <<batchVars, readerVars, env, attribution, svc, result, etlVars>>

NextConcurrent ==
    \E c \in Callers :
        \/ CallPrepare(c)
        \/ CallPredictProba(c)
        \/ CallExplain(c)
        \/ CallReturn(c)
        \/ CallDone(c)

SpecConcurrent == InitConcurrent /\ [][NextConcurrent]_vars

----------------------------------------------------------------------------
(* The ETL processor: process_full_dataset over the raw per-user files *)

\* what one raw file can be: pd.read_csv raises on it; it parses to a frame without rows;
\* it parses to rows that lack a column the statistics need; it parses to one or two rows
FileKinds ==
    {[status |-> "unreadable", len |-> 0], [status |-> "malformed", len |-> 1],
     [status |-> "ok", len |-> 0], [status |-> "ok", len |-> 1], [status |-> "ok", len |-> 2]}

\* a list glob can return: the files u<name>.csv of n distinct names, in ascending or in
\* descending order
FileList(n, kinds, descending) ==
    [i \in 1..n |-> [name |-> IF descending THEN n + 1 - i ELSE i,
                     status |-> kinds[i].status, len |-> kinds[i].len]]

headers ==
    <<"user_id", "total_interactions", "avg_response_time", "consistency_score",
      "last_active_timestamp">>

\* os.path.basename(file_path).replace('u', '').replace('.csv', '')
user_id(f) == ToString(f.name)

\* the elapsed_time column of the frame read from f: row j took 10*j, and its timestamp is j
elapsed_time(f) == [j \in 1..f.len |-> 10 * j]

\* df['elapsed_time'].mean()
ElapsedMean(f) == SumSeq(elapsed_time(f)) \div f.len

\* df['elapsed_time'].std(), held as the sample variance; NaN for a single row
ElapsedStd(f) ==
    IF f.len < 2 THEN NaN
    ELSE SumSeq([j \in 1..f.len |-> (elapsed_time(f)[j] - ElapsedMean(f))
                                       * (elapsed_time(f)[j] - ElapsedMean(f))])
            \div (f.len - 1)

\* the stats list of one file, as csv.writer writes it
Stats(f) ==
    <<user_id(f),
      ToString(f.len),
      ToString(ElapsedMean(f)),
      ToString(IF ElapsedStd(f) # NaN THEN ElapsedStd(f) ELSE 0),
      ToString(f.len)>>   \* int(df['timestamp'].max()): the timestamp of the last row

\* the try block of one iteration: batch_data after it, whether it completed or raised into
\* the except clause, which only prints
TryBody(f, batch) ==
    IF f.status = "unreadable" THEN batch
    ELSE IF f.len > 0
         THEN IF f.status = "malformed" THEN batch ELSE Append(batch, Stats(f))
         ELSE batch

InitEtlSpec ==
    /\ scores = {}
    /\ fit = CHOOSE e \in Estimators : TRUE
    /\ table = {}
    /\ pending = {}
    /\ prevTable = {}
    /\ InitRun
    /\ rpc = "idle" /\ observed = NoRead
    /\ InitService
    /\ \E n \in 0..MaxFiles : \E kinds \in [1..n -> FileKinds] : \E descending \in BOOLEAN :
         source_folder = FileList(n, kinds, descending)
    \* OUTPUT_FILE before the run: nothing, or the output an earlier run left
    /\ output_file \in {<<>>, <<headers, Stats([name |-> 0, status |-> "ok", len |-> 1])>>}
    /\ epc = "start"
    /\ file_i = 0
    /\ batch_data = <<>>

\* if not all_files: print, return
NoFilesFound ==
    /\ epc = "start"
    /\ source_folder = <<>>
    /\ epc' = "returned"
    /\ UNCHANGED <<source_folder, output_file, file_i, batch_data>>
    /\ UNCHANGED <<batchVars, readerVars, serviceVars>>

\* open(OUTPUT_FILE, 'w'), writerow(headers); batch_data = []
InitializeOutput ==
    /\ epc = "start"
    /\ source_folder # <<>>
    /\ output_file' = <<headers>>
    /\ batch_data' = <<>>
    /\ file_i' = 1
    /\ epc' = "loop"
    /\ UNCHANGED <<source_folder, batchVars, readerVars, serviceVars>>

\* an iteration in which an exception of the try block leaves the function
ProcessFileRaising ==
    /\ epc = "loop"
    /\ file_i <= Len(source_folder)
    /\ LET f == source_folder[file_i]
           raises == f.status = "unreadable" \/ (f.status = "malformed" /\ f.len > 0)
           batch == TryBody(f, batch_data)
       IN  IF raises
           THEN /\ epc' = "raised"
                /\ UNCHANGED <<output_file, batch_data, file_i>>
           ELSE /\ IF Len(batch) >= BATCH_SIZE
                   THEN output_file' = output_file \o batch /\ batch_data' = <<>>
                   ELSE output_file' = output_file /\ batch_data' = batch
                /\ file_i' = file_i + 1
                /\ epc' = "loop"
    /\ UNCHANGED <<source_folder, batchVars, readerVars, serviceVars>>

\* one iteration of the loop: the try block, then the write of a full batch
ProcessFile ==
    /\ epc = "loop"
    /\ file_i <= Len(source_folder)
    /\ LET batch == TryBody(source_folder[file_i], batch_data)
       IN  IF Len(batch) >= BATCH_SIZE
           THEN output_file' = output_file \o batch /\ batch_data' = <<>>
           ELSE output_file' = output_file /\ batch_data' = batch
    /\ file_i' = file_i + 1
    /\ epc' = "loop"
    /\ UNCHANGED <<source_folder, batchVars, readerVars, serviceVars>>

\* an end of the loop that returns without writing the buffer
WriteRemainingSkipped ==
    /\ epc = "loop"
    /\ file_i > Len(source_folder)
    /\ epc' = "completed"
    /\ UNCHANGED <<source_folder, output_file, file_i, batch_data>>
    /\ UNCHANGED <<batchVars, readerVars, serviceVars>>

\* after the loop: if batch_data: writerows(batch_data)
WriteRemaining ==
    /\ epc = "loop"
    /\ file_i > Len(source_folder)
    /\ output_file' = IF batch_data # <<>> THEN output_file \o batch_data ELSE output_file
    /\ epc' = "completed"
    /\ UNCHANGED <<source_folder, file_i, batch_data>>
    /\ UNCHANGED <<batchVars, readerVars, serviceVars>>

NextEtl ==
    \/ NoFilesFound
    \/ InitializeOutput
    \/ ProcessFile
    \/ WriteRemaining

SpecEtl == InitEtlSpec /\ [][NextEtl]_vars

----------------------------------------------------------------------------
(* Claims *)

SaveFailurePcs == {"generated", "deleted", "cleared", "built", "inserted"}
AfterGenerate == SavePcs \cup {"done"}
RunRaised == pc \in {"raised", "failed"}

\* the prediction set the current run writes, once generate_predictions has run
NewPredictionSet == SeqToSet(BuildRecords(df_ml, model))

\* C1: when save_to_database fails during the clear, the record building, the bulk
\* insert or the final commit, the committed prediction table after the rollback is
\* exactly the table the run started with.
C1_RollbackKeepsPreviousSet ==
    (RunRaised /\ failed_in \in SaveFailurePcs) => table = prevTable

\* C2: every get_latest_prediction request served while a batch run is anywhere in its
\* course returns what it would return on the complete previous prediction set or on
\* the complete new prediction set.
C2_ReadsSeeWholeSet ==
    [][(rpc = "idle" /\ rpc' = "responded") =>
          \/ observed'.prediction = LatestPrediction(prevTable, observed'.student_id)
          \/ /\ pc \in AfterGenerate \/ (RunRaised /\ failed_in \in SavePcs)
             /\ observed'.prediction = LatestPrediction(NewPredictionSet, observed'.student_id)
      ]_vars

\* categorize_risk over every probability of [0,1], in thousandths
TiersPartitionUnitInterval ==
    \A p \in 0..1000 :
        /\ categorize_risk(p) \in {"High", "Medium", "Low"}
        /\ (categorize_risk(p) = "High") <=> (p >= 700)
        /\ (categorize_risk(p) = "Medium") <=> (p >= 400 /\ p < 700)
        /\ (categorize_risk(p) = "Low") <=> (p < 400)

\* C3: categorize_risk returns High exactly for p >= 0.7, Medium exactly for
\* 0.4 <= p < 0.7 and Low exactly for p < 0.4, for every p of [0,1] in thousandths, and
\* every generated or persisted record's risk_level is the tier of its risk_probability.
C3_RiskTierOfProbability ==
    /\ TiersPartitionUnitInterval
    /\ \A r \in table \cup pending \cup SeqToSet(records) :
         /\ (r.risk_level = "High") <=> (r.risk_probability >= 700)
         /\ (r.risk_level = "Medium") <=> (r.risk_probability >= 400 /\ r.risk_probability < 700)
         /\ (r.risk_level = "Low") <=> (r.risk_probability < 400)

\* the run has persisted a record at each end of the Medium band
C3_Witness ==
    \E r1, r2 \in table :
        /\ r1.created_at = "now" /\ r2.created_at = "now"
        /\ r1.risk_probability = 400 /\ r1.risk_level = "Medium"
        /\ r2.risk_probability = 699 /\ r2.risk_level = "Medium"

\* the rows of the same student dated just before row i
DayBefore(d, i) ==
    {j \in 1..Len(d) :
        /\ d[j].student_id = d[i].student_id
        /\ d[j].date < d[i].date
        /\ \A k \in 1..Len(d) :
             d[k].student_id = d[i].student_id => ~(d[j].date < d[k].date /\ d[k].date < d[i].date)}

\* C4: in each student's rows taken in date order, consecutive_low_days is 0 on a day
\* whose score is >= 40 and one more than on the student's previous day (one, on the
\* student's first day) on a day whose score is < 40, whatever the other students' rows.
C4_StreakPerStudent ==
    pc = "engineered" =>
        \A i \in 1..Len(df) :
            /\ df[i].engagement_score >= 40 => df[i].consecutive_low_days = 0
            /\ df[i].engagement_score < 40 =>
                 /\ DayBefore(df, i) = {} => df[i].consecutive_low_days = 1
                 /\ \A j \in DayBefore(df, i) :
                      /\ df[i].consecutive_low_days = df[j].consecutive_low_days + 1
                      /\ df[i].consecutive_low_days >= df[j].consecutive_low_days

\* ten days at score 25 give 10 on day 10, and the next student's first low day gives 1
C4_Witness ==
    /\ pc = "engineered"
    /\ \E i, j \in 1..Len(df) :
         /\ df[i].student_id = 1 /\ df[i].date = 10 /\ df[i].engagement_score = 25
         /\ df[i].consecutive_low_days = 10
         /\ j = i + 1 /\ df[j].student_id = 2 /\ df[j].engagement_score = 25
         /\ df[j].consecutive_low_days = 1

\* C5: once a run has generated its predictions, every loaded engagement score record
\* has exactly one prediction row.
C5_EveryRecordPredicted ==
    pc \in AfterGenerate =>
        \A r \in scores :
            Cardinality({i \in 1..Len(df_ml) :
                df_ml[i].student_id = r.student_id /\ df_ml[i].date = r.date}) = 1

Prepared == pc \notin {"start", "loaded", "engineered"} /\ failed_in \notin {"start", "loaded", "engineered"}

\* C6: the rows of (X, y) are exactly the feature rows with a defined 7-day lag and a
\* defined 7-day rolling average, in order, each with its own score and its own label
\* at_risk = (engagement_score < 30); a student whose rows all lack the lag has no row.
C6_TrainingRowsHaveHistory ==
    Prepared =>
        /\ Len(X) = Len(df_ml) /\ Len(y) = Len(df_ml)
        /\ \A i \in 1..Len(df_ml) :
             /\ df_ml[i].engagement_score_lag_7days # NaN
             /\ df_ml[i].rolling_avg_7days # NaN
             /\ \E j \in 1..Len(df) :
                  /\ df[j].student_id = df_ml[i].student_id /\ df[j].date = df_ml[i].date
                  /\ df[j].engagement_score = df_ml[i].engagement_score
             /\ X[i].engagement_score = df_ml[i].engagement_score
             /\ X[i].engagement_score_lag_7days = df_ml[i].engagement_score_lag_7days
             /\ X[i].rolling_avg_7days = df_ml[i].rolling_avg_7days
             /\ y[i] = (IF df_ml[i].engagement_score < 30 THEN 1 ELSE 0)
        /\ \A s \in Students :
             (\A j \in 1..Len(df) :
                 df[j].student_id = s => df[j].engagement_score_lag_7days = NaN)
             => \A i \in 1..Len(df_ml) : df_ml[i].student_id # s

\* a student whose only row has a rolling average and no lag is left out, and the
\* other student's two rows are kept with the labels 1 and 0
C6_Witness ==
    /\ pc = "prepared"
    /\ Len(df) = 3 /\ Len(X) = 2
    /\ \E j \in 1..Len(df) :
         /\ df[j].engagement_score_lag_7days = NaN /\ df[j].rolling_avg_7days # NaN
         /\ df[j].student_id # df_ml[1].student_id
    /\ y = <<1, 0>>

\* the accuracy of always predicting the majority class of the test set
BaselineCorrect ==
    LET ones == Cardinality({i \in test_idx : y[i] = 1})
    IN  Max(ones, Cardinality(test_idx) - ones)

MateriallyWorse == accuracy.correct < BaselineCorrect

\* C7: save_to_database is entered only for a model the held-out evaluation accepted:
\* never for one that scored below the majority-class baseline.
C7_RejectedModelNotSaved ==
    (pc \in AfterGenerate \ {"generated"} \/ (RunRaised /\ failed_in \in SavePcs))
        => ~MateriallyWorse

Degraded == result.status # "none" /\ result.outcome # "ok"

\* C8: when the attribution of a predict call fails, or there is no explainer, predict
\* returns the class, probability and risk level, with the bare sentence and empty
\* top_features, confidence_factors and risk_factors; it does not raise.
C8_ExplanationDegrades ==
    Degraded =>
        /\ result.status = "returned"
        /\ result.predicted_class \in SeqToSet(Classes)
        /\ result.probability = result.probabilities[ArgMax(result.probabilities)]
        /\ result.risk_level \in {"LOW", "MEDIUM", "HIGH", "CRITICAL"}
        /\ result.explanation.natural_language_explanation.kind = "bare"
        /\ result.explanation.natural_language_explanation.predicted_class = result.predicted_class
        /\ result.explanation.natural_language_explanation.probability = result.probability
        /\ result.explanation.top_features = <<>>
        /\ result.explanation.confidence_factors = <<>>
        /\ result.explanation.risk_factors = <<>>

C8_Witness ==
    /\ result.status = "returned"
    /\ result.outcome = "explain_raises"
    /\ result.explanation.shap_values # <<>>
    /\ result.explanation.top_features = <<>>

\* C9: when an artifact cannot be loaded or TreeExplainer rejects the model, MLService()
\* raises; an MLService instance has a loaded classifier and a loaded explainer.
C9_NoServiceWithoutExplainer ==
    /\ svc.state = "ready" => (svc.model = "loaded" /\ svc.explainer # "None")
    /\ (svc.state # "importing" /\
            ((\E a \in DOMAIN env.loadable : ~env.loadable[a]) \/ ~env.tree_explainer))
         => svc.state = "raised"

\* C10: after a failure inside save_to_database the run is raising or has raised; it
\* never reaches the summary nor ends in success.
C10_PersistenceErrorIsFatal ==
    failed_in \in SavePcs => pc \in {"raised", "failed"}

C10_Witness == pc = "failed" /\ failed_in = "inserted" /\ prevTable # {}

PreSavePcs == {"start", "loaded", "engineered", "prepared", "split", "trained", "evaluated"}

\* C11: when a run raises in load_data, engineer_features, prepare_ml_data, the
\* train/test split, train_model, evaluate_model or generate_predictions, the committed
\* prediction table holds exactly the records it held before the run.
C11_FailureBeforeSaveKeepsTable ==
    /\ pc \in PreSavePcs => table = prevTable
    /\ (RunRaised /\ failed_in \in PreSavePcs) => table = prevTable

\* generate_predictions raised over a table that held an earlier run's records
C11_Witness ==
    /\ pc = "failed" /\ failed_in = "evaluated"
    /\ prevTable # {} /\ table = prevTable

\* a record without its created_at timestamp
WithoutCreatedAt(r) == [c \in DOMAIN r \ {"created_at"} |-> r[c]]

RiskRank(class) ==
    CASE class = "Withdrawn" -> 2
      [] class = "Fail" -> 1
      [] OTHER -> 0

\* the positions of a probability vector that hold its maximum
Tied(v) == {i \in 1..Len(v) : \A j \in 1..Len(v) : v[j] <= v[i]}

\* C13: the class predict returns has the maximum probability, and when several classes
\* share the maximum it is one of the highest risk among them.
C13_TieGoesToHighestRisk ==
    result.status = "returned" =>
        /\ \E i \in Tied(result.probabilities) : result.predicted_class = Classes[i]
        /\ \A i \in Tied(result.probabilities) :
             RiskRank(Classes[i]) <= RiskRank(result.predicted_class)

Explained == result.status = "explained"

\* the position of a feature name in the attribution vector
PositionOf(name) ==
    CHOOSE k \in 1..Len(attribution.feature_names) : attribution.feature_names[k] = name

\* C14: over n features, top_features has min(5, n) entries, each a different feature
\* with its own contribution, in order of non-increasing absolute contribution; no
\* feature left out has a larger absolute contribution than a listed one; an entry is
\* tagged positive exactly when its contribution is > 0 and negative exactly when it
\* is < 0.
C14_TopFeaturesRankedAndTagged ==
    Explained =>
        LET top == result.explanation.top_features
            sv == attribution.shap_values
            listed == {top[i].feature_name : i \in 1..Len(top)}
        IN  /\ Len(top) = Min(5, Len(sv))
            /\ Cardinality(listed) = Len(top)
            /\ \A i \in 1..Len(top) :
                 /\ top[i].feature_name \in SeqToSet(attribution.feature_names)
                 /\ top[i].shap_value = sv[PositionOf(top[i].feature_name)]
                 /\ top[i].importance = Abs(top[i].shap_value)
                 /\ i > 1 => top[i - 1].importance >= top[i].importance
                 /\ (top[i].contribution = "positive") <=> (top[i].shap_value > 0)
                 /\ (top[i].contribution = "negative") <=> (top[i].shap_value < 0)
            /\ \A k \in 1..Len(sv) :
                 attribution.feature_names[k] \notin listed =>
                     \A i \in 1..Len(top) : Abs(sv[k]) <= top[i].importance

\* C15: confidence_factors holds at most 3 entries, all of features whose contribution
\* is positive; risk_factors holds at most 3 entries, all of features whose
\* contribution is negative.
C15_FactorsCappedAtThree ==
    Explained =>
        LET cf == result.explanation.confidence_factors
            rf == result.explanation.risk_factors
        IN  /\ Len(cf) <= 3
            /\ Len(rf) <= 3
            /\ \A i \in 1..Len(cf) : attribution.shap_values[PositionOf(cf[i].name)] > 0
            /\ \A i \in 1..Len(rf) : attribution.shap_values[PositionOf(rf[i].name)] < 0

\* C16: on each student's first row, where the trailing window holds one observation,
\* engagement_volatility_7days is 0 and not null.
C16_VolatilityOfOneObservationIsZero ==
    pc = "engineered" =>
        \A i \in 1..Len(df) :
            DayBefore(df, i) = {} =>
                /\ df[i].engagement_volatility_7days # NaN
                /\ df[i].engagement_volatility_7days = 0

\* the rows of the same student dated before row i
Earlier(d, i) ==
    {j \in 1..Len(d) : d[j].student_id = d[i].student_id /\ d[j].date < d[i].date}

\* the lag-n feature of row i is the score of the row n places before it in the
\* student's rows in date order, and null when the student has fewer than n earlier rows
LagIsOwnEarlierScore(d, i, n, lag) ==
    IF Cardinality(Earlier(d, i)) < n THEN lag = NaN
    ELSE \E j \in Earlier(d, i) :
            /\ Cardinality({k \in Earlier(d, i) : d[k].date >= d[j].date}) = n
            /\ lag = d[j].engagement_score

\* C17: engagement_score_lag_3days and engagement_score_lag_14days of every feature row
\* are the score of the row 3 and 14 places earlier in the same student's date-ordered
\* rows, and null when the student has fewer earlier rows; never another student's score.
C17_LagFromOwnSeries ==
    pc = "engineered" =>
        \A i \in 1..Len(df) :
            /\ LagIsOwnEarlierScore(df, i, 3, df[i].engagement_score_lag_3days)
            /\ LagIsOwnEarlierScore(df, i, 14, df[i].engagement_score_lag_14days)

\* fifteen rows each: the fifteenth row of either student has the student's first score
\* as its 14-row lag, and student 2's first three rows have no 3-row lag although
\* student 1's rows precede them
C17_Witness ==
    /\ pc = "engineered"
    /\ Len(df) = 30
    /\ df[15].student_id = 1 /\ df[15].engagement_score_lag_14days = 21
    /\ df[15].engagement_score_lag_3days = 32
    /\ df[16].student_id = 2 /\ df[16].engagement_score_lag_3days = NaN
    /\ df[18].engagement_score_lag_3days = NaN
    /\ df[19].engagement_score_lag_3days = 41
    /\ df[30].student_id = 2 /\ df[30].engagement_score_lag_14days = 41

\* C18: whatever order the rows of the input are stored in, engineer_features gives
\* each (student_id, date) row the features it gives it when the rows come ordered by
\* student and date.
C18_StorageOrderIrrelevant ==
    pc = "engineered" =>
        /\ Len(df) = Len(frame)
        /\ SeqToSet(df) = SeqToSet(engineer_features(OrderBy(SeqToSet(frame))))

\* four rows stored with student 2 first and student 1's dates out of order; student
\* 1's third day still ends a streak of three
C18_Witness ==
    /\ pc = "engineered"
    /\ Len(frame) = 4
    /\ frame[1].student_id = 2
    /\ frame[2].student_id = 1 /\ frame[2].date = 3
    /\ frame[3].student_id = 1 /\ frame[3].date = 1
    /\ \E i \in 1..Len(df) :
         /\ df[i].student_id = 1 /\ df[i].date = 3
         /\ df[i].consecutive_low_days = 3 /\ df[i].days_since_start = 3
         /\ df[i].engagement_volatility_7days = 0

\* the students that have a row without a score in frame d
StudentsWithMissingScore(d) ==
    {d[i].student_id : i \in {j \in 1..Len(d) : d[j].engagement_score = NaN}}

\* the rows of d that belong to none of the students S
RowsOfOthers(d, S) == {d[i] : i \in {j \in 1..Len(d) : d[j].student_id \notin S}}

\* C19: a row whose score is missing gets no feature row, and the feature rows of the
\* other students are those the input without that row would have given.
C19_MalformedRowSkipped ==
    pc = "engineered" =>
        /\ \A i \in 1..Len(df) : df[i].engagement_score # NaN
        /\ RowsOfOthers(df, StudentsWithMissingScore(frame)) =
             RowsOfOthers(engineer_features(SelectSeq(frame, LAMBDA r : r.engagement_score # NaN)),
                          StudentsWithMissingScore(frame))

\* the number of the student's consecutive rows with a score below 40 that end at row r
StreakEndingAt(S, r) ==
    Cardinality({q \in S :
        /\ q.student_id = r.student_id /\ q.date <= r.date /\ q.engagement_score < 40
        /\ \A p \in S : (p.student_id = r.student_id /\ q.date <= p.date /\ p.date <= r.date)
                            => p.engagement_score < 40})

\* C20: the contributing_factors of every persisted record are those of its own score
\* row: low_engagement_score iff the score is < 40, declining_trend iff the trend is
\* Declining, low_session_activity iff session_score is < 30, consecutive_low_days the
\* row's streak; whatever the classifier learned and predicted.
C20_FactorsFromOwnRow ==
    \A r \in table :
        \E row \in scores :
            /\ row.student_id = r.student_id /\ row.date = r.prediction_date
            /\ r.contributing_factors.low_engagement_score <=> (row.engagement_score < 40)
            /\ r.contributing_factors.declining_trend <=> (row.engagement_trend = "Declining")
            /\ r.contributing_factors.low_session_activity <=> (row.session_score < 30)
            /\ r.contributing_factors.consecutive_low_days = StreakEndingAt(scores, row)

\* a saved record of Low risk with a streak of two and low session activity, next to one
\* with a declining trend, a streak of one and no low session activity
C20_Witness ==
    /\ pc = "done"
    /\ \E r1, r2 \in table :
         /\ r1.created_at = "now" /\ r2.created_at = "now"
         /\ r1.risk_level = "Low"
         /\ r1.contributing_factors =
                [low_engagement_score |-> TRUE, declining_trend |-> FALSE,
                 low_session_activity |-> TRUE, consecutive_low_days |-> 2]
         /\ r2.contributing_factors =
                [low_engagement_score |-> TRUE, declining_trend |-> TRUE,
                 low_session_activity |-> FALSE, consecutive_low_days |-> 1]

\* C21: every record a run has written carries the model's whole (feature, importance)
\* list in order of non-increasing importance, and all the records of the run have the
\* same feature_importance, model_version, model_type and prediction_horizon_days = 7.
C21_SameModelMetadata ==
    pc = "done" =>
        \A r \in table :
            /\ r.feature_importance = feature_importance(model)
            /\ \A i \in 2..Len(r.feature_importance) :
                 r.feature_importance[i - 1].importance >= r.feature_importance[i].importance
            /\ r.prediction_horizon_days = 7
            /\ \A q \in table :
                 /\ q.feature_importance = r.feature_importance
                 /\ q.model_version = r.model_version
                 /\ q.model_type = r.model_type
                 /\ q.prediction_horizon_days = r.prediction_horizon_days

\* every returned call has the result predict gives for its own request when run alone
ResultsAsAlone ==
    \A c \in Callers :
        calls[c].pc = "returned" =>
            calls[c].result = predict(svc, calls[c].features, calls[c].prediction_proba,
                                      calls[c].outcome, calls[c].shap_values)

\* C22: no statement of a predict call writes a field of the service (model, scaler,
\* label_encoder, feature_names, metadata, explainer), and under every interleaving of
\* the calls each call returns the result it would return alone.
C22_PredictKeepsNoSharedState ==
    /\ []ResultsAsAlone
    /\ [][svc' = svc]_vars

\* one call has returned Distinction with its detailed explanation while the other,
\* still in progress, has computed a different class
C22_Witness ==
    /\ calls[1].pc = "returned" /\ calls[1].result.predicted_class = "Distinction"
    /\ calls[1].result.outcome = "ok"
    /\ calls[1].result.explanation.top_features # <<>>
    /\ calls[2].pc = "explained"
    /\ calls[2].prediction_proba # calls[1].prediction_proba
    /\ calls[2].explanation.top_features = <<>>

\* the adjective for every class and every probability of [0,1], in thousandths
ConfidenceBands ==
    \A class \in SeqToSet(Classes), p \in 0..1000 :
        LET word == build_natural_language_explanation(class, p, <<>>).confidence
        IN  /\ word \in {"high", "moderate", "low"}
            /\ (word = "high") <=> (p >= 800)
            /\ (word = "moderate") <=> (p >= 600 /\ p < 800)
            /\ (word = "low") <=> (p < 600)

\* C23: the adjective of the sentence is high exactly for probability >= 0.8, moderate
\* exactly for 0.6 <= probability < 0.8 and low exactly for probability < 0.6, whatever
\* the class and the features, and the sentence names at most 3 positive and at most 3
\* negative factors.
C23_ConfidenceWordAndThreeNames ==
    /\ ConfidenceBands
    /\ Explained =>
         LET sentence == result.explanation.natural_language_explanation
         IN  /\ (sentence.confidence = "high") <=> (attribution.probability >= 800)
             /\ (sentence.confidence = "moderate") <=>
                    (attribution.probability >= 600 /\ attribution.probability < 800)
             /\ (sentence.confidence = "low") <=> (attribution.probability < 600)
             /\ Len(sentence.positive) <= 3
             /\ Len(sentence.negative) <= 3

\* probability 0.8 reads high, with five positive top features of which three are named
C23_Witness ==
    /\ Explained
    /\ attribution.probability = 800
    /\ result.explanation.natural_language_explanation.confidence = "high"
    /\ Len(result.explanation.top_features) = 5
    /\ \A i \in 1..5 : result.explanation.top_features[i].contribution = "positive"
    /\ Len(result.explanation.natural_language_explanation.positive) = 3

\* C24: the class probabilities predict returns sum to 1, also when those of the
\* estimator do not, and the predicted class is the largest of the returned ones.
C24_ProbabilitiesSumToOne ==
    result.status = "returned" =>
        /\ SumSeq(result.probabilities) = 1000
        /\ result.probability = result.probabilities[ArgMax(result.probabilities)]

\* how many rows of frame d have the (student_id, date) of row r
KeyCount(d, r) ==
    Cardinality({j \in 1..Len(d) : d[j].student_id = r.student_id /\ d[j].date = r.date})

\* C25: engineer_features returns as many rows as it was given, each (student_id, date)
\* as often as in the input, and days_since_start of a row is one more than the number
\* of the student's earlier rows.
C25_OneFeatureRowPerRecord ==
    pc = "engineered" =>
        /\ Len(df) = Len(frame)
        /\ \A i \in 1..Len(frame) : KeyCount(df, frame[i]) = KeyCount(frame, frame[i])
        /\ \A j \in 1..Len(df) :
             /\ KeyCount(frame, df[j]) = KeyCount(df, df[j])
             /\ df[j].days_since_start = Cardinality(Earlier(df, j)) + 1

\* nine rows of student 1 and one of student 2 give ten feature rows, numbered 1 to 9
\* and 1
C25_Witness ==
    /\ pc = "engineered"
    /\ Len(frame) = 10 /\ Len(df) = 10
    /\ \A j \in 1..9 : df[j].student_id = 1 /\ df[j].date = j /\ df[j].days_since_start = j
    /\ df[10].student_id = 2 /\ df[10].days_since_start = 1

\* the records generated, pending or committed
AllRecords == table \cup pending \cup SeqToSet(records)

\* max(p, 1 - p) for every probability of [0,1], in thousandths
ConfidenceRange == \A p \in 0..1000 : confidence_score(p) \in 500..1000

\* C26: every record's confidence_score is max(risk_probability, 1 - risk_probability),
\* which for every probability of [0,1] lies in [0.5, 1].
C26_ConfidenceIsLargerSide ==
    /\ ConfidenceRange
    /\ \A r \in AllRecords :
         /\ r.confidence_score >= r.risk_probability
         /\ r.confidence_score >= 1000 - r.risk_probability
         /\ r.confidence_score \in {r.risk_probability, 1000 - r.risk_probability}
         /\ r.confidence_score >= 500 /\ r.confidence_score <= 1000

\* a saved record of probability 0.39 has confidence 0.61, one of 0.7 has 0.7
C26_Witness ==
    /\ pc = "done"
    /\ \E r1, r2 \in table :
         /\ r1.risk_probability = 390 /\ r1.confidence_score = 610
         /\ r2.risk_probability = 700 /\ r2.confidence_score = 700

\* C27: a record of risk_level High has at_risk true and a record of risk_level Low has
\* at_risk false.
C27_AtRiskAgreesWithTier ==
    \A r \in AllRecords :
        /\ r.risk_level = "High" => r.at_risk
        /\ r.risk_level = "Low" => ~r.at_risk

\* the run saved a High record that is at risk, next to a Low record that is not; the
\* classifier ranks the score below 30 as the safe one
C27_Witness ==
    /\ pc = "done"
    /\ \E r1, r2 \in table :
         /\ r1.risk_level = "High" /\ r1.at_risk /\ r1.risk_probability = 700
         /\ r1.contributing_factors.low_engagement_score = FALSE
         /\ r2.risk_level = "Low" /\ ~r2.at_risk /\ r2.risk_probability = 390

\* C28: in every persisted record low_engagement_score is true exactly when
\* consecutive_low_days is at least 1.
C28_LowScoreIffStreak ==
    \A r \in table :
        r.contributing_factors.low_engagement_score <=>
            (r.contributing_factors.consecutive_low_days >= 1)

\* a student's day at 39 and next day at 40: a streak of 1 with the flag, then a streak
\* of 0 without it
C28_Witness ==
    /\ pc = "done"
    /\ \E row1, row2 \in scores :
         /\ row1.student_id = row2.student_id /\ row1.date < row2.date
         /\ row1.engagement_score = 39 /\ row2.engagement_score = 40
    /\ \E r1, r2 \in table :
         /\ r1.prediction_date < r2.prediction_date
         /\ r1.contributing_factors.low_engagement_score
         /\ r1.contributing_factors.consecutive_low_days = 1
         /\ ~r2.contributing_factors.low_engagement_score
         /\ r2.contributing_factors.consecutive_low_days = 0

\* a file that adds a row: it parses, has rows, and its statistics can be computed
Contributes(f) == f.status = "ok" /\ f.len > 0

\* the rows of the first k files of the list, in the order of the list
ExpectedRows(k) ==
    LET firstK == SubSeq(source_folder, 1, k)
        kept == SelectSeq(firstK, Contributes)
    IN  [j \in 1..Len(kept) |-> Stats(kept[j])]

\* C29: the output is the header once, then one row for each file that was read and is not
\* empty, in the order of processing: during the loop the file followed by the buffer is
\* the header and the rows of the files processed so far, and after the last write the file
\* alone is the header and the rows of all of them.
C29_OneRowPerFileInOrder ==
    /\ epc = "loop" =>
         /\ output_file \o batch_data = <<headers>> \o ExpectedRows(file_i - 1)
         /\ Len(batch_data) < BATCH_SIZE
    /\ epc = "completed" =>
         output_file = <<headers>> \o ExpectedRows(Len(source_folder))

\* five readable files of one or two rows: full batches were written during the loop and
\* the buffer still held a row for the last write
C29_Witness ==
    /\ epc = "completed"
    /\ Len(source_folder) = 5
    /\ \A i \in 1..5 : Contributes(source_folder[i])
    /\ source_folder[1].name = 5
    /\ Len(batch_data) \in 1..(BATCH_SIZE - 1)
    /\ Len(output_file) = 6
    /\ output_file[1] = headers
    /\ \A i \in 1..5 : output_file[i + 1] = Stats(source_folder[i])

\* the data lines of the output that carry the user id of file f
LinesOf(f) == {j \in 2..Len(output_file) : output_file[j][1] = user_id(f)}

\* after the run a file has a line exactly if it contributes, and then one line
SkippedFilesLeaveNoRow ==
    epc = "completed" =>
        \A i \in 1..Len(source_folder) :
            Cardinality(LinesOf(source_folder[i])) =
                IF Contributes(source_folder[i]) THEN 1 ELSE 0

\* an iteration on a file that fails or is empty goes on to the next file and leaves what
\* was written and buffered as it was
SkipStep ==
    (epc = "loop" /\ file_i <= Len(source_folder) /\ ~Contributes(source_folder[file_i])) =>
        /\ epc' = "loop"
        /\ file_i' = file_i + 1
        /\ output_file' \o batch_data' = output_file \o batch_data

\* C30: a file that cannot be read or parsed, and an empty file, is skipped: the loop goes on,
\* the file adds no row, the rows buffered before it are kept and written, and every other
\* readable non-empty file has its row in the output.
C30_UnreadableFileSkipped == []SkippedFilesLeaveNoRow /\ [][SkipStep]_vars

\* a readable file, then an unreadable, an empty and a malformed one, then a readable one:
\* the first row waited in the buffer through the three skipped files
C30_Witness ==
    /\ epc = "completed"
    /\ Len(source_folder) = 5
    /\ Contributes(source_folder[1])
    /\ source_folder[2].status = "unreadable"
    /\ source_folder[3].status = "ok" /\ source_folder[3].len = 0
    /\ source_folder[4].status = "malformed"
    /\ Contributes(source_folder[5])
    /\ output_file = <<headers, Stats(source_folder[1]), Stats(source_folder[5])>>

====
